---- MODULE Spec2Model ----
(***************************************************************************)
(* A model of realtps_import (src/src/realtps_import/src/main.rs): the job  *)
(* loop of `run`, `Importer::do_job`, the backward walk of                  *)
(* `Importer::import`, the fan-out of `Importer::calculate` and the window  *)
(* walk of `calculate_for_chain`.                                           *)
(*                                                                         *)
(* Every `.await` of the source is a step boundary: an action is what one   *)
(* task does between two suspension points.  The remote nodes and the Db    *)
(* (realtps_common, not part of this source file) are the environment.      *)
(***************************************************************************)
EXTENDS Integers, Sequences, FiniteSets, TLC

(***************************************************************************)
(* Bounds of the model.                                                     *)
(***************************************************************************)
\* Heights of a remote chain are 0..MaxHeight.
MaxHeight == 3
\* How many reorganisations the remote nodes perform in one behaviour.
MaxReorgs == 1
\* Heights of the remote chain that grows when all jobs run together (Spec).
RunMaxHeight == 1
\* The source's INITIAL_SYNC_BLOCKS is 100 (main.rs:309).  The model keeps the
\* name and scales the value so that a head height at or above the cap, and a
\* walk ended by the cap, happen within MaxHeight.
INITIAL_SYNC_BLOCKS == 2

Chains == {"c1", "c2"}
Heights == 0..MaxHeight

(***************************************************************************)
(* Option<T>: None is the empty sequence, Some(x) the one-element sequence. *)
(***************************************************************************)
None == <<>>
Some(x) == <<x>>
IsSome(o) == o # <<>>
Unwrap(o) == o[1]

(***************************************************************************)
(* enum Job { Import(Chain), Calculate }                                    *)
(***************************************************************************)
ImportJob(c) == <<"Import", c>>
CalculateJob == <<"Calculate">>
Jobs == {ImportJob(c) : c \in Chains} \cup {CalculateJob}
ChainOf(j) == j[2]

VARIABLES
    cmd,        \* the Command the process was started with
    all_chains, \* all_chains(): the chains of this run, in order
    jobs,       \* run: the FuturesUnordered, a bag of live do_job futures
    stopped,    \* run: the loop took its "no more jobs?!" exit
    pc,         \* per job: where its do_job future is suspended
    r,          \* per job: the Result that import / calculate handed to do_job
    out,        \* per job: the Vec<Job> its completed do_job future yields
    imp,        \* per chain: the locals of Importer::import
    blocks,     \* Db: (chain, height) -> Option<Block>
    highest,    \* Db: chain -> Option<u64>, the high-water mark
    tps,        \* Db: chain -> Option<tps>
    rchain,     \* per chain: the remote node's chain, one version per height
    reorgs,     \* how many reorganisations have happened
    pass,       \* history, per chain: what the current Import pass has done
    calc,       \* the locals of Importer::calculate
    task        \* per chain: the calculate_for_chain task spawned for it

vars == <<cmd, all_chains, jobs, stopped, pc, r, out, imp, blocks, highest, tps,
          rchain, reorgs, pass, calc, task>>

calcVars == <<calc, task>>

dbVars == <<blocks, highest, tps>>
remoteVars == <<rchain, reorgs>>

Range(s) == {s[i] : i \in 1..Len(s)}

(***************************************************************************)
(* The remote node of a chain.  rchain[c][h + 1] is the version of the      *)
(* block at height h; a reorganisation at height k gives every block at or  *)
(* above k a fresh version, so <<h, version>> identifies a block together   *)
(* with its ancestry, as a hash does.                                       *)
(***************************************************************************)
RemoteHead(c) == Len(rchain[c]) - 1

HashOf(h, v) == <<h, v>>
ZeroHash == <<-1, 0>>

BaseTimestamp == 60 * 60 * 24 * 7
TimestampOf(h, v) == BaseTimestamp + 60 * h + v
NumTxsOf(h, v) == 5

\* ethers_block_to_block / solana_block_to_block: the Block of a remote block.
RemoteBlock(c, h) ==
    [chain |-> c,
     block_number |-> h,
     timestamp |-> TimestampOf(h, rchain[c][h + 1]),
     num_txs |-> NumTxsOf(h, rchain[c][h + 1]),
     hash |-> HashOf(h, rchain[c][h + 1]),
     parent_hash |-> IF h = 0 THEN ZeroHash ELSE HashOf(h - 1, rchain[c][h])]

\* The node learns of one more block, a child of its head.
GrowTo(c, max) ==
    /\ Len(rchain[c]) <= max
    /\ rchain' = [rchain EXCEPT ![c] = Append(@, @[Len(@)])]
    /\ UNCHANGED <<cmd, all_chains, jobs, stopped, pc, r, out, imp, blocks,
                   highest, tps, reorgs, pass, calcVars>>

RemoteGrow(c) == GrowTo(c, MaxHeight)

\* The node reports a lower head than before (a lagging node behind the same
\* endpoint): main.rs:294 expects it.
RemoteShrink(c) ==
    /\ Len(rchain[c]) > 1
    /\ rchain' = [rchain EXCEPT ![c] = SubSeq(@, 1, Len(@) - 1)]
    /\ UNCHANGED <<cmd, all_chains, jobs, stopped, pc, r, out, imp, blocks,
                   highest, tps, reorgs, pass, calcVars>>

RemoteReorg(c) ==
    /\ reorgs < MaxReorgs
    /\ \E k \in 1..RemoteHead(c) :
          rchain' = [rchain EXCEPT
                       ![c] = [i \in 1..Len(@) |->
                                 IF i >= k + 1 THEN reorgs + 1 ELSE @[i]]]
    /\ reorgs' = reorgs + 1
    /\ UNCHANGED <<cmd, all_chains, jobs, stopped, pc, r, out, imp, blocks,
                   highest, tps, pass, calcVars>>

(***************************************************************************)
(* Results.                                                                 *)
(***************************************************************************)
Ok(new_jobs) == [ok |-> TRUE, new_jobs |-> new_jobs]
Err == [ok |-> FALSE, new_jobs |-> <<>>]

(***************************************************************************)
(* init_jobs and the seeding of `run`.                                      *)
(***************************************************************************)
RECURSIVE MapImport(_)
MapImport(cs) ==
    IF cs = <<>> THEN <<>>
    ELSE <<ImportJob(Head(cs))>> \o MapImport(Tail(cs))

init_jobs(command, chains) ==
    CASE command = "Import" -> MapImport(chains)
      [] command = "Calculate" -> <<CalculateJob>>
      [] command = "Run" -> MapImport(chains) \o <<CalculateJob>>

Count(s, j) == Cardinality({i \in 1..Len(s) : s[i] = j})

\* jobs.push(importer.do_job(job)) for every job of a Vec<Job>.
PushAll(bag, new_jobs) == [j \in Jobs |-> bag[j] + Count(new_jobs, j)]

StartPc(j) == IF j = CalculateJob THEN "spawn" ELSE "get_block_number"

ImpIdle ==
    [head_block_number |-> 0, highest_block_number |-> None,
     initial_sync |-> FALSE, synced |-> 0, block_number |-> 0,
     parent_hash |-> ZeroHash]

\* History of one Import pass: the head and the high-water mark when it began,
\* the heights it has stored in order, the heights at which it has found a
\* stored block whose hash is not the parent_hash above it, whether it has
\* called get_block, whether it has written the high-water mark, whether the
\* node's last answer for the height it is fetching was None.
PassIdle ==
    [head |-> 0, hwm |-> None, stored |-> <<>>, reorged |-> {},
     fetched |-> FALSE, wrote_highest |-> FALSE, absent |-> FALSE]

(***************************************************************************)
(* Importer::import                                                         *)
(***************************************************************************)
\* main.rs:283: client.get_block_number().await
ImportGetBlockNumber(c) ==
    /\ jobs[ImportJob(c)] > 0
    /\ pc[ImportJob(c)] = "get_block_number"
    /\ imp' = [imp EXCEPT ![c] = [ImpIdle EXCEPT
                                   !.head_block_number = RemoteHead(c)]]
    /\ pc' = [pc EXCEPT ![ImportJob(c)] = "load_highest"]
    /\ pass' = [pass EXCEPT ![c] = [PassIdle EXCEPT !.head = RemoteHead(c),
                                                    !.hwm = highest[c]]]
    /\ UNCHANGED <<cmd, all_chains, jobs, stopped, r, out, dbVars, remoteVars,
                   calcVars>>

\* Mutant of NeedsWalk: the comparison with the high-water mark is lost.
NeedsWalk_Always(head_block_number, highest_block_number) == TRUE

\* main.rs:307: is there anything to import?
NeedsWalk(head_block_number, highest_block_number) ==
    Some(head_block_number) # highest_block_number

\* main.rs:287-312 and 402-404: load the high-water mark, compare it with the
\* head, set up the walk.
ImportLoadHighest(c) ==
    /\ jobs[ImportJob(c)] > 0
    /\ pc[ImportJob(c)] = "load_highest"
    /\ LET highest_block_number == highest[c]
           head_block_number == imp[c].head_block_number
       IN IF NeedsWalk(head_block_number, highest_block_number)
          THEN /\ imp' = [imp EXCEPT
                            ![c].highest_block_number = highest_block_number,
                            ![c].initial_sync = (highest_block_number = None),
                            ![c].synced = 0,
                            ![c].block_number = head_block_number]
               /\ pc' = [pc EXCEPT ![ImportJob(c)] = "get_block"]
          ELSE /\ imp' = [imp EXCEPT
                            ![c].highest_block_number = highest_block_number]
               /\ pc' = [pc EXCEPT ![ImportJob(c)] = "rescan"]
    /\ UNCHANGED <<cmd, all_chains, jobs, stopped, r, out, dbVars, remoteVars,
                   pass, calcVars>>

\* Mutant of ImportGetBlockNone: a missing block fails the pass.
ImportGetBlockNone_Fail(c) ==
    /\ jobs[ImportJob(c)] > 0
    /\ pc[ImportJob(c)] = "get_block"
    /\ pass' = [pass EXCEPT ![c].fetched = TRUE, ![c].absent = TRUE]
    /\ r' = [r EXCEPT ![ImportJob(c)] = Err]
    /\ pc' = [pc EXCEPT ![ImportJob(c)] = "match"]
    /\ UNCHANGED <<cmd, all_chains, jobs, stopped, out, imp, dbVars,
                   remoteVars, calcVars>>

\* main.rs:317-329: get_block returned None; retry_delay, fetch the same
\* height again.  A node always answers None for a height above its head.
ImportGetBlockNone(c) ==
    /\ jobs[ImportJob(c)] > 0
    /\ pc[ImportJob(c)] = "get_block"
    /\ pass' = [pass EXCEPT ![c].fetched = TRUE, ![c].absent = TRUE]
    /\ UNCHANGED <<cmd, all_chains, jobs, stopped, pc, r, out, imp, dbVars,
                   remoteVars, calcVars>>

\* Mutant of AfterStore: the cap is tested one block late.
AfterStore_CapLate(initial_sync, synced, block_number) ==
    IF initial_sync /\ synced = INITIAL_SYNC_BLOCKS + 1 THEN "store_highest"
    ELSE IF block_number = 0 THEN "store_highest"
    ELSE "load_block"

\* Mutant of AfterStore: the genesis stop leaves the pass without writing the
\* high-water mark.
AfterStore_GenesisNoMark(initial_sync, synced, block_number) ==
    IF initial_sync /\ synced = INITIAL_SYNC_BLOCKS THEN "store_highest"
    ELSE IF block_number = 0 THEN "rescan"
    ELSE "load_block"

\* What the walk does after a block is stored (main.rs:336-343, 393-396):
\* the initial-sync cap, then the genesis stop, else load the predecessor.
AfterStore(initial_sync, synced, block_number) ==
    IF initial_sync /\ synced = INITIAL_SYNC_BLOCKS THEN "store_highest"
    ELSE IF block_number = 0 THEN "store_highest"
    ELSE "load_block"

\* main.rs:318-343: get_block returned a block; store it, count it.
ImportStoreBlock(c) ==
    /\ jobs[ImportJob(c)] > 0
    /\ pc[ImportJob(c)] = "get_block"
    /\ imp[c].block_number <= RemoteHead(c)
    /\ LET block == RemoteBlock(c, imp[c].block_number)
           synced == imp[c].synced + 1
       IN /\ blocks' = [blocks EXCEPT ![c][block.block_number] = Some(block)]
          /\ imp' = [imp EXCEPT ![c].parent_hash = block.parent_hash,
                                ![c].synced = synced]
          /\ pc' = [pc EXCEPT ![ImportJob(c)] =
                      AfterStore(imp[c].initial_sync, synced, imp[c].block_number)]
          /\ pass' = [pass EXCEPT
                        ![c].stored = Append(@, block.block_number),
                        ![c].fetched = TRUE,
                        ![c].absent = FALSE]
    /\ UNCHANGED <<cmd, all_chains, jobs, stopped, r, out, highest, tps,
                   remoteVars, calcVars>>

\* Mutant of Reconnected: the hashes are not compared.
Reconnected_AnyHash(prev_block, prev_block_number, parent_hash, highest_block_number) ==
    /\ IsSome(prev_block)
    /\ IsSome(highest_block_number)
    /\ prev_block_number <= Unwrap(highest_block_number)

\* Mutant of Reconnected: a matching predecessor ends the walk wherever it is.
Reconnected_AnyHeight(prev_block, prev_block_number, parent_hash, highest_block_number) ==
    /\ IsSome(prev_block)
    /\ Unwrap(prev_block).hash = parent_hash

\* main.rs:349-385: does the walk stop at the predecessor it loaded?
Reconnected(prev_block, prev_block_number, parent_hash, highest_block_number) ==
    /\ IsSome(prev_block)
    /\ Unwrap(prev_block).hash = parent_hash
    /\ IsSome(highest_block_number)
    /\ prev_block_number <= Unwrap(highest_block_number)

\* Mutant of PrevBlockNumber: the walk steps down two heights.
PrevBlockNumber_Skip(block_number) ==
    IF block_number >= 2 THEN block_number - 2 ELSE block_number - 1

\* main.rs:343: block_number.checked_sub(1), taken where block_number > 0.
PrevBlockNumber(block_number) == block_number - 1

\* main.rs:343-392: load the block below, decide whether to go on.
ImportLoadBlock(c) ==
    /\ jobs[ImportJob(c)] > 0
    /\ pc[ImportJob(c)] = "load_block"
    /\ LET prev_block_number == PrevBlockNumber(imp[c].block_number)
           prev_block == blocks[c][prev_block_number]
       IN /\ IF Reconnected(prev_block, prev_block_number,
                            imp[c].parent_hash, imp[c].highest_block_number)
             THEN /\ pc' = [pc EXCEPT ![ImportJob(c)] = "store_highest"]
                  /\ UNCHANGED imp
             ELSE /\ imp' = [imp EXCEPT ![c].block_number = prev_block_number]
                  /\ pc' = [pc EXCEPT ![ImportJob(c)] = "get_block"]
          /\ pass' = [pass EXCEPT ![c].reorged =
                        IF IsSome(prev_block)
                           /\ Unwrap(prev_block).hash # imp[c].parent_hash
                        THEN @ \cup {prev_block_number} ELSE @]
    /\ UNCHANGED <<cmd, all_chains, jobs, stopped, r, out, dbVars, remoteVars,
                   calcVars>>

\* Mutant of NewHighest: the height the walk ended at is recorded.
NewHighest_WalkEnd(head_block_number, block_number) == block_number

\* Mutant of NewHighest: the height above the head is recorded.
NewHighest_AboveHead(head_block_number, block_number) == head_block_number + 1

\* main.rs:400: the height the pass records as the high-water mark.
NewHighest(head_block_number, block_number) == head_block_number

\* main.rs:399-401: store_highest_block_number(chain, head_block_number)
ImportStoreHighest(c) ==
    /\ jobs[ImportJob(c)] > 0
    /\ pc[ImportJob(c)] = "store_highest"
    /\ highest' = [highest EXCEPT ![c] =
                     Some(NewHighest(imp[c].head_block_number,
                                     imp[c].block_number))]
    /\ pc' = [pc EXCEPT ![ImportJob(c)] = "rescan"]
    /\ pass' = [pass EXCEPT ![c].wrote_highest = TRUE]
    /\ UNCHANGED <<cmd, all_chains, jobs, stopped, r, out, imp, blocks, tps,
                   remoteVars, calcVars>>

\* main.rs:406-408: rescan_delay, Ok(vec![Job::Import(chain)])
ImportOk(c) == Ok(<<ImportJob(c)>>)

ImportRescan(c) ==
    /\ jobs[ImportJob(c)] > 0
    /\ pc[ImportJob(c)] = "rescan"
    /\ r' = [r EXCEPT ![ImportJob(c)] = ImportOk(c)]
    /\ pc' = [pc EXCEPT ![ImportJob(c)] = "match"]
    /\ imp' = [imp EXCEPT ![c] = ImpIdle]
    /\ UNCHANGED <<cmd, all_chains, jobs, stopped, out, dbVars, remoteVars,
                   pass, calcVars>>

\* Every `?` of import (main.rs:283, 287, 318, 334, 347, 401): the client or
\* the Db call fails, the pass ends with Err and has written nothing in that
\* step.
ImportFallible == {"get_block_number", "load_highest", "get_block",
                   "load_block", "store_highest"}

ImportErr(c) ==
    /\ jobs[ImportJob(c)] > 0
    /\ pc[ImportJob(c)] \in ImportFallible
    /\ r' = [r EXCEPT ![ImportJob(c)] = Err]
    /\ pc' = [pc EXCEPT ![ImportJob(c)] = "match"]
    /\ imp' = [imp EXCEPT ![c] = ImpIdle]
    /\ pass' = [pass EXCEPT ![c].absent = FALSE]
    /\ UNCHANGED <<cmd, all_chains, jobs, stopped, out, dbVars, remoteVars,
                   calcVars>>

(***************************************************************************)
(* calculate_for_chain, main.rs:447-537                                     *)
(***************************************************************************)
\* The source converts with u32::try_from; 2^32 is beyond the integers of     
\* the model checker, so the model's u32 is U32_BITS wide.  The order        
\* seconds_per_week < u32::MAX of the source is kept.
U32_BITS == 21
U32_MAX == 2 ^ U32_BITS - 1

\* main.rs:471
seconds_per_week == 60 * 60 * 24 * 7

\* u64::checked_sub
checked_sub(a, b) == IF a < b THEN None ELSE Some(a - b)

\* The outcome of a task: Ok(ChainCalcs), Err(..), or a panic, which the
\* JoinHandle reports as a JoinError.  tps is the quotient num / den of two
\* f64 converted from u32, kept as the pair.
CalcOk(num, den) == [kind |-> "Ok", tps |-> Some([num |-> num, den |-> den])]
CalcErr == [kind |-> "Err", tps |-> None]
CalcPanic == [kind |-> "Panic", tps |-> None]
NoRes == [kind |-> "None", tps |-> None]

TaskIdle ==
    [pc |-> "none", highest_block_number |-> 0, latest_timestamp |-> 0,
     min_timestamp |-> 0, current_block_number |-> 0, current_block |-> None,
     num_txs |-> 0, init_timestamp |-> 0, res |-> NoRes]

TaskStart == [TaskIdle EXCEPT !.pc = "load_highest"]

\* main.rs:527-536: the window is closed at init_timestamp.
ChainCalcs(latest_timestamp, init_timestamp, num_txs) ==
    IF ~(init_timestamp <= latest_timestamp) THEN CalcPanic
    ELSE LET total_seconds == latest_timestamp - init_timestamp
         IN IF total_seconds > U32_MAX THEN CalcErr
            ELSE IF num_txs > U32_MAX THEN CalcErr
            ELSE CalcOk(num_txs, total_seconds)

Finish(t, init_timestamp, num_txs) ==
    [t EXCEPT !.pc = "done",
              !.num_txs = num_txs,
              !.init_timestamp = init_timestamp,
              !.res = ChainCalcs(t.latest_timestamp, init_timestamp, num_txs)]

Fail(t, res) == [TaskIdle EXCEPT !.pc = "done", !.res = res]

TaskRunning(c) ==
    /\ jobs[CalculateJob] > 0
    /\ pc[CalculateJob] \in {"await", "store_tps"}

\* main.rs:448-453
TaskLoadHighest(c) ==
    /\ TaskRunning(c)
    /\ task[c].pc = "load_highest"
    /\ task' = [task EXCEPT ![c] =
                  IF highest[c] = None THEN Fail(@, CalcErr)
                  ELSE [@ EXCEPT !.pc = "load_latest",
                                 !.highest_block_number = Unwrap(highest[c])]]
    /\ UNCHANGED <<cmd, all_chains, jobs, stopped, pc, r, out, imp, dbVars,
                   remoteVars, pass, calc>>

\* main.rs:466-474
TaskLoadLatest(c) ==
    /\ TaskRunning(c)
    /\ task[c].pc = "load_latest"
    /\ LET first_block == blocks[c][task[c].highest_block_number]
       IN task' = [task EXCEPT ![c] =
            IF first_block = None THEN Fail(@, CalcPanic)
            ELSE LET latest_timestamp == Unwrap(first_block).timestamp
                     min_timestamp ==
                         checked_sub(latest_timestamp, seconds_per_week)
                 IN IF min_timestamp = None THEN Fail(@, CalcPanic)
                    ELSE [@ EXCEPT !.pc = "load_current",
                                   !.latest_timestamp = latest_timestamp,
                                   !.min_timestamp = Unwrap(min_timestamp)]]
    /\ UNCHANGED <<cmd, all_chains, jobs, stopped, pc, r, out, imp, dbVars,
                   remoteVars, pass, calc>>

\* main.rs:476-498: load the block at the high-water mark again, enter the
\* loop, which asserts current_block_number != 0 before it loads anything.
TaskLoadCurrent(c) ==
    /\ TaskRunning(c)
    /\ task[c].pc = "load_current"
    /\ LET current_block_number == task[c].highest_block_number
           current_block == blocks[c][current_block_number]
       IN task' = [task EXCEPT ![c] =
            IF current_block = None THEN Fail(@, CalcPanic)
            ELSE IF ~(current_block_number # 0) THEN Fail(@, CalcPanic)
            ELSE [@ EXCEPT !.pc = "load_prev",
                           !.current_block_number = current_block_number,
                           !.current_block = current_block,
                           !.num_txs = 0]]
    /\ UNCHANGED <<cmd, all_chains, jobs, stopped, pc, r, out, imp, dbVars,
                   remoteVars, pass, calc>>

\* Mutant of LoopIteration: the transactions of the block the walk stops at
\* are counted too.
LoopIteration_CountBoundary(t, prev_block_number, prev_block) ==
    LET current_block == Unwrap(t.current_block)
    IN IF IsSome(prev_block)
       THEN LET prev == Unwrap(prev_block)
                num_txs == t.num_txs + current_block.num_txs
            IN IF prev.timestamp <= t.min_timestamp
               THEN Finish(t, prev.timestamp, num_txs + prev.num_txs)
               ELSE IF prev.block_number = 0
               THEN Finish(t, prev.timestamp, num_txs + prev.num_txs)
               ELSE IF ~(prev_block_number # 0)
               THEN Fail(t, CalcPanic)
               ELSE [t EXCEPT !.current_block_number = prev_block_number,
                              !.current_block = prev_block,
                              !.num_txs = num_txs]
       ELSE Finish(t, current_block.timestamp, t.num_txs)

\* main.rs:498-525: one iteration of the loop on the task's locals t, given
\* what load_block(prev_block_number) returned, up to the assertion at the
\* head of the next iteration.
LoopIteration(t, prev_block_number, prev_block) ==
    LET current_block == Unwrap(t.current_block)
    IN IF IsSome(prev_block)
       THEN LET num_txs == t.num_txs + current_block.num_txs
                prev == Unwrap(prev_block)
            IN IF prev.timestamp <= t.min_timestamp
               THEN Finish(t, prev.timestamp, num_txs)
               ELSE IF prev.block_number = 0
               THEN Finish(t, prev.timestamp, num_txs)
               ELSE IF ~(prev_block_number # 0)
               THEN Fail(t, CalcPanic)
               ELSE [t EXCEPT !.current_block_number = prev_block_number,
                              !.current_block = prev_block,
                              !.num_txs = num_txs]
       ELSE Finish(t, current_block.timestamp, t.num_txs)

\* main.rs:499: load_block(prev_block_number).await
TaskLoadPrev(c) ==
    /\ TaskRunning(c)
    /\ task[c].pc = "load_prev"
    /\ LET prev_block_number == task[c].current_block_number - 1
       IN task' = [task EXCEPT ![c] =
                     LoopIteration(@, prev_block_number,
                                   blocks[c][prev_block_number])]
    /\ UNCHANGED <<cmd, all_chains, jobs, stopped, pc, r, out, imp, dbVars,
                   remoteVars, pass, calc>>

\* Every `?` of calculate_for_chain (main.rs:450, 461): a Db read fails and
\* the task ends with Err.
TaskErr(c) ==
    /\ TaskRunning(c)
    /\ task[c].pc \in {"load_highest", "load_latest", "load_current",
                       "load_prev"}
    /\ task' = [task EXCEPT ![c] = Fail(@, CalcErr)]
    /\ UNCHANGED <<cmd, all_chains, jobs, stopped, pc, r, out, imp, dbVars,
                   remoteVars, pass, calc>>

(***************************************************************************)
(* Importer::calculate, main.rs:411-439                                     *)
(***************************************************************************)
\* calc.i is the position in `tasks` of the task the for loop is at;
\* calc.stored and calc.store_failed are history: the chains whose TPS this
\* pass has stored, and whether a store_tps call of this pass failed.
CalcIdle == [i |-> 1, stored |-> {}, store_failed |-> FALSE]

\* main.rs:413-419: one task per chain, all running from here on.
CalcSpawn ==
    /\ jobs[CalculateJob] > 0
    /\ pc[CalculateJob] = "spawn"
    /\ task' = [c \in Chains |->
                  IF c \in Range(all_chains) THEN TaskStart ELSE TaskIdle]
    /\ calc' = CalcIdle
    /\ pc' = [pc EXCEPT ![CalculateJob] = "await"]
    /\ UNCHANGED <<cmd, all_chains, jobs, stopped, r, out, imp, dbVars,
                   remoteVars, pass>>

\* Where the for loop goes after the task at position i: to the next task,
\* or past the loop to recalculate_delay.
AfterTask(i) == IF i < Len(all_chains) THEN "await" ELSE "recalculate"

\* main.rs:421-433: task.await? and the match on its result.
CalcAwait ==
    /\ jobs[CalculateJob] > 0
    /\ pc[CalculateJob] = "await"
    /\ LET chain == all_chains[calc.i]
           res == task[chain].res
       IN /\ task[chain].pc = "done"
          /\ CASE res.kind = "Panic" ->
                    /\ r' = [r EXCEPT ![CalculateJob] = Err]
                    /\ pc' = [pc EXCEPT ![CalculateJob] = "match"]
                    /\ UNCHANGED calc
               [] res.kind = "Ok" ->
                    /\ pc' = [pc EXCEPT ![CalculateJob] = "store_tps"]
                    /\ UNCHANGED <<r, calc>>
               [] res.kind = "Err" ->
                    /\ pc' = [pc EXCEPT ![CalculateJob] = AfterTask(calc.i)]
                    /\ calc' = [calc EXCEPT !.i = @ + 1]
                    /\ UNCHANGED r
    /\ UNCHANGED <<cmd, all_chains, jobs, stopped, out, imp, dbVars,
                   remoteVars, pass, task>>

\* main.rs:427: db.store_tps(calcs.chain, calcs.tps)
CalcStoreTps ==
    /\ jobs[CalculateJob] > 0
    /\ pc[CalculateJob] = "store_tps"
    /\ LET chain == all_chains[calc.i]
       IN /\ tps' = [tps EXCEPT ![chain] = task[chain].res.tps]
          /\ calc' = [calc EXCEPT !.i = @ + 1, !.stored = @ \cup {chain}]
    /\ pc' = [pc EXCEPT ![CalculateJob] = AfterTask(calc.i)]
    /\ UNCHANGED <<cmd, all_chains, jobs, stopped, r, out, imp, blocks,
                   highest, remoteVars, pass, task>>

\* main.rs:427: store_tps fails, `??` ends the pass with Err.
CalcStoreTpsErr ==
    /\ jobs[CalculateJob] > 0
    /\ pc[CalculateJob] = "store_tps"
    /\ r' = [r EXCEPT ![CalculateJob] = Err]
    /\ calc' = [calc EXCEPT !.store_failed = TRUE]
    /\ pc' = [pc EXCEPT ![CalculateJob] = "match"]
    /\ UNCHANGED <<cmd, all_chains, jobs, stopped, out, imp, dbVars,
                   remoteVars, pass, task>>

\* Mutant of CalculateOk: the pass returns no follow-up job.
CalculateOk_NoFollowUp == Ok(<<>>)

\* main.rs:436-438: recalculate_delay, Ok(vec![Job::Calculate])
CalculateOk == Ok(<<CalculateJob>>)

CalcRecalculate ==
    /\ jobs[CalculateJob] > 0
    /\ pc[CalculateJob] = "recalculate"
    /\ r' = [r EXCEPT ![CalculateJob] = CalculateOk]
    /\ pc' = [pc EXCEPT ![CalculateJob] = "match"]
    /\ UNCHANGED <<cmd, all_chains, jobs, stopped, out, imp, dbVars,
                   remoteVars, pass, calcVars>>

(***************************************************************************)
(* Importer::do_job, main.rs:267-275                                        *)
(***************************************************************************)
\* Mutant of do_job: a failed job yields what its pass returned, nothing.
do_job_Drop(job, res) == res.new_jobs

\* Mutant of do_job: a failed job is handed back twice.
do_job_Twice(job, res) == IF res.ok THEN res.new_jobs ELSE <<job, job>>

do_job(job, res) == IF res.ok THEN res.new_jobs ELSE <<job>>

DoJob(j) ==
    /\ jobs[j] > 0
    /\ pc[j] = "match"
    /\ out' = [out EXCEPT ![j] = do_job(j, r[j])]
    /\ pc' = [pc EXCEPT ![j] = "ready"]
    \* the future of calculate is dropped, and its JoinHandles with it
    /\ IF j = CalculateJob
       THEN calc' = CalcIdle /\ task' = [c \in Chains |-> TaskIdle]
       ELSE UNCHANGED calcVars
    /\ UNCHANGED <<cmd, all_chains, jobs, stopped, r, imp, dbVars,
                   remoteVars, pass>>

(***************************************************************************)
(* run, main.rs:77-87: one turn of the loop                                 *)
(***************************************************************************)
Admit(bag, j, new_jobs) ==
    PushAll([bag EXCEPT ![j] = @ - 1], new_jobs)

RunLoop ==
    /\ ~stopped
    /\ IF \A j \in Jobs : jobs[j] = 0
       THEN /\ stopped' = TRUE
            /\ UNCHANGED <<jobs, pc, r, out, pass>>
       ELSE \E j \in Jobs :
              /\ jobs[j] > 0
              /\ pc[j] = "ready"
              /\ jobs' = Admit(jobs, j, out[j])
              /\ pc' = [k \in Jobs |->
                          IF k \in Range(out[j]) THEN StartPc(k)
                          ELSE IF k = j THEN "none" ELSE pc[k]]
              /\ out' = [out EXCEPT ![j] = <<>>]
              /\ r' = [r EXCEPT ![j] = Err]
              /\ pass' = [c \in Chains |->
                            IF j = ImportJob(c)
                            THEN [PassIdle EXCEPT !.hwm = highest[c]]
                            ELSE pass[c]]
              /\ UNCHANGED stopped
    /\ UNCHANGED <<cmd, all_chains, imp, dbVars, remoteVars, calcVars>>

(***************************************************************************)
(* Initial states: the state of `run` at main.rs:76, the jobs seeded.       *)
(***************************************************************************)
InitCommon(command, chains) ==
    /\ cmd = command
    /\ all_chains = chains
    /\ jobs = PushAll([j \in Jobs |-> 0], init_jobs(command, chains))
    /\ stopped = FALSE
    /\ pc = [j \in Jobs |->
               IF j \in Range(init_jobs(command, chains)) THEN StartPc(j)
               ELSE "none"]
    /\ r = [j \in Jobs |-> Err]
    /\ out = [j \in Jobs |-> <<>>]
    /\ imp = [c \in Chains |-> ImpIdle]
    /\ pass = [c \in Chains |-> PassIdle]
    /\ calc = CalcIdle
    /\ task = [c \in Chains |-> TaskIdle]

InitImport ==
    /\ InitCommon("Import", <<"c1">>)
    /\ tps = [c \in Chains |-> None]
    /\ blocks = [c \in Chains |-> [h \in Heights |-> None]]
    /\ highest = [c \in Chains |-> None]
    /\ rchain = [c \in Chains |-> <<0>>]
    /\ reorgs = 0

NextImport ==
    \/ \E c \in Chains :
         \/ ImportGetBlockNumber(c)
         \/ ImportLoadHighest(c)
         \/ ImportGetBlockNone(c)
         \/ ImportStoreBlock(c)
         \/ ImportLoadBlock(c)
         \/ ImportStoreHighest(c)
         \/ ImportRescan(c)
         \/ ImportErr(c)
    \/ \E j \in Jobs : DoJob(j)
    \/ RunLoop
    \/ \E c \in Range(all_chains) :
         \/ RemoteGrow(c)
         \/ RemoteShrink(c)
         \/ RemoteReorg(c)

SpecImport == InitImport /\ [][NextImport]_vars

\* The import command with a node that keeps every block it has announced and
\* answers in the end: the steps of a pass that wait for the node or the Db
\* are taken when they stay possible.  A call may still fail, and the node
\* may still answer None any number of times before it returns a block.
ImportStep(c) ==
    \/ ImportGetBlockNumber(c)
    \/ ImportLoadHighest(c)
    \/ ImportStoreBlock(c)
    \/ ImportLoadBlock(c)
    \/ ImportStoreHighest(c)
    \/ ImportRescan(c)

NextImportLive ==
    \/ \E c \in Chains :
         \/ ImportStep(c)
         \/ ImportGetBlockNone(c)
         \/ ImportErr(c)
    \/ \E j \in Jobs : DoJob(j)
    \/ RunLoop
    \/ \E c \in Range(all_chains) :
         \/ RemoteGrow(c)
         \/ RemoteReorg(c)

SpecImportLive ==
    /\ InitImport
    /\ [][NextImportLive]_vars
    /\ \A c \in Chains : WF_vars(ImportStep(c))

(***************************************************************************)
(* The Calculate job alone over two chains (command "calculate").  No       *)
(* Import job runs, so the store is constant; its content is drawn from     *)
(* what Import passes over some remote chains can have left: a high-water   *)
(* mark with the block at it, below it any blocks or gaps, any timestamps   *)
(* and transaction counts.                                                  *)
(***************************************************************************)
CalcTimestamps ==
    {0, seconds_per_week, seconds_per_week + 60, seconds_per_week + U32_MAX}

\* Block h of the drawn store holds 2^h transactions, so that a sum tells
\* which blocks it counts; `big` puts u32::MAX transactions into the block at
\* the high-water mark.
CalcNumTxs(h, S, big) == IF big /\ h = S THEN U32_MAX ELSE 2 ^ h

CalcBlock(c, h, timestamp, num_txs) ==
    [chain |-> c, block_number |-> h, timestamp |-> timestamp,
     num_txs |-> num_txs, hash |-> HashOf(h, 0),
     parent_hash |-> IF h = 0 THEN ZeroHash ELSE HashOf(h - 1, 0)]

CalcStore(c, S, big, ts) ==
    [h \in Heights |->
       IF ts[h] = None THEN None
       ELSE Some(CalcBlock(c, h, Unwrap(ts[h]), CalcNumTxs(h, S, big)))]

\* The second chain is either never synced or two blocks a minute apart.
PlainStore(c) ==
    [h \in Heights |->
       IF h <= 1
       THEN Some(CalcBlock(c, h, seconds_per_week + 60 * h, 5))
       ELSE None]

PrevTps == [num |-> 1, den |-> 1]

InitCalc ==
    /\ InitCommon("Calculate", <<"c1", "c2">>)
    /\ rchain = [c \in Chains |-> <<0>>]
    /\ reorgs = 0
    /\ \E S \in Heights, big \in BOOLEAN, synced1 \in BOOLEAN,
          synced2 \in BOOLEAN,
          ts \in [Heights -> {Some(t) : t \in CalcTimestamps} \cup {None}] :
         /\ \A h \in Heights : h > S => ts[h] = None
         /\ IF synced1 THEN ts[S] # None
            ELSE S = 0 /\ ~big /\ ts[S] = None
         /\ blocks = [c \in Chains |->
                        IF c = "c1" THEN CalcStore(c, S, big, ts)
                        ELSE IF synced2 THEN PlainStore(c)
                        ELSE [h \in Heights |-> None]]
         /\ highest = [c \in Chains |->
                         IF c = "c1" THEN (IF synced1 THEN Some(S) ELSE None)
                         ELSE IF synced2 THEN Some(1) ELSE None]
    /\ tps = [c \in Chains |-> IF c = "c1" THEN Some(PrevTps) ELSE None]

NextCalc ==
    \/ CalcSpawn
    \/ CalcAwait
    \/ CalcStoreTps
    \/ CalcStoreTpsErr
    \/ CalcRecalculate
    \/ \E c \in Chains :
         \/ TaskLoadHighest(c)
         \/ TaskLoadLatest(c)
         \/ TaskLoadCurrent(c)
         \/ TaskLoadPrev(c)
         \/ TaskErr(c)
    \/ \E j \in Jobs : DoJob(j)
    \/ RunLoop

SpecCalc == InitCalc /\ [][NextCalc]_vars

(***************************************************************************)
(* The whole program: any of the three commands, two chains, the Import     *)
(* jobs and the Calculate job running concurrently.  The remote chain of    *)
(* c1 grows to RunMaxHeight, the head of c2 stays its genesis block.        *)
(***************************************************************************)
Commands == {"Run", "Import", "Calculate"}

RemoteGrowRun == GrowTo("c1", RunMaxHeight)

Init ==
    /\ \E command \in Commands : InitCommon(command, <<"c1", "c2">>)
    /\ tps = [c \in Chains |-> None]
    /\ blocks = [c \in Chains |-> [h \in Heights |-> None]]
    /\ highest = [c \in Chains |-> None]
    /\ rchain = [c \in Chains |-> <<0>>]
    /\ reorgs = 0

Next ==
    \/ \E c \in Chains :
         \/ ImportGetBlockNumber(c)
         \/ ImportLoadHighest(c)
         \/ ImportGetBlockNone(c)
         \/ ImportStoreBlock(c)
         \/ ImportLoadBlock(c)
         \/ ImportStoreHighest(c)
         \/ ImportRescan(c)
         \/ ImportErr(c)
    \/ CalcSpawn
    \/ CalcAwait
    \/ CalcStoreTps
    \/ CalcStoreTpsErr
    \/ CalcRecalculate
    \/ \E c \in Chains :
         \/ TaskLoadHighest(c)
         \/ TaskLoadLatest(c)
         \/ TaskLoadCurrent(c)
         \/ TaskLoadPrev(c)
         \/ TaskErr(c)
    \/ \E j \in Jobs : DoJob(j)
    \/ RunLoop
    \/ RemoteGrowRun

Spec == Init /\ [][Next]_vars

(***************************************************************************)
(* The claims.                                                              *)
(***************************************************************************)
\* The stored blocks of chain c at adjacent heights up to `top` are linked.
Linked(c, top) ==
    \A h \in 1..MaxHeight :
       (h <= top /\ IsSome(blocks[c][h]) /\ IsSome(blocks[c][h - 1]))
          => Unwrap(blocks[c][h]).parent_hash = Unwrap(blocks[c][h - 1]).hash

\* An Import pass of chain c has completed successfully: it is at its
\* rescan_delay, past every write.
PassCompleted(c) == jobs[ImportJob(c)] > 0 /\ pc[ImportJob(c)] = "rescan"

Walking(c) == jobs[ImportJob(c)] > 0 /\ pc[ImportJob(c)] \in
                 {"get_block", "load_block", "store_highest", "rescan"}

\* The do_job future of job j has ended in failure / in success; r[j] is what
\* import or calculate returned.
Failed(j) == jobs[j] > 0 /\ pc[j] \in {"match", "ready"} /\ ~r[j].ok
Succeeded(j) == jobs[j] > 0 /\ pc[j] \in {"match", "ready"} /\ r[j].ok

\* C1 (continuity): when an Import pass of a chain has completed, every two
\* stored blocks of the chain at adjacent heights h, h - 1 with h at most the
\* high-water mark satisfy block[h].parent_hash = block[h - 1].hash.
C1_Continuity ==
    \A c \in Chains :
       PassCompleted(c) =>
          /\ IsSome(highest[c])
          /\ Linked(c, Unwrap(highest[c]))

\* C2 (high-water mark): the high-water mark of a chain changes only in the
\* step of an Import pass that takes it from store_highest to its rescan
\* delay, and becomes the head height the pass read when it began; from there
\* the pass writes neither a block nor the mark; a pass that ends in failure
\* leaves the mark as it was when the pass began.
C2_HighWaterMark ==
    [][\A c \in Chains :
         LET j == ImportJob(c)
         IN /\ highest'[c] # highest[c] =>
                 /\ pc[j] = "store_highest"
                 /\ pc'[j] = "rescan"
                 /\ highest'[c] = Some(pass[c].head)
                 /\ blocks' = blocks
            /\ pc[j] = "rescan" =>
                 /\ blocks'[c] = blocks[c]
                 /\ highest'[c] = highest[c]
            /\ (pc[j] # "match" /\ Failed(j)') =>
                 /\ highest'[c] = pass[c].hwm
                 /\ highest'[c] = highest[c]
      ]_vars

\* C2 witness: a pass that began with a high-water mark, stored blocks above
\* it and then failed.
C2_Witness ==
    \E c \in Chains :
       /\ Failed(ImportJob(c))
       /\ pass[c].stored # <<>>
       /\ IsSome(pass[c].hwm)
       /\ highest[c] = pass[c].hwm

\* The heights H, H - 1, ..., H - n + 1 in this order.
DownFrom(H, n) == [i \in 1..n |-> H - i + 1]

\* C3 (initial sync cap): a completed Import pass of a chain that had no
\* high-water mark, with head height H >= INITIAL_SYNC_BLOCKS, has stored
\* exactly the INITIAL_SYNC_BLOCKS heights from H down, not height 0, and has
\* set the high-water mark to H.
C3_InitialSyncCap ==
    \A c \in Chains :
       (PassCompleted(c) /\ pass[c].hwm = None
          /\ pass[c].head >= INITIAL_SYNC_BLOCKS) =>
          /\ pass[c].stored = DownFrom(pass[c].head, INITIAL_SYNC_BLOCKS)
          /\ 0 \notin Range(pass[c].stored)
          /\ highest[c] = Some(pass[c].head)

\* C3 witness: such a pass, with a block of an earlier failed pass stored just
\* below the heights it stored.
C3_Witness ==
    \E c \in Chains :
       /\ PassCompleted(c)
       /\ pass[c].hwm = None
       /\ pass[c].head >= INITIAL_SYNC_BLOCKS
       /\ Len(pass[c].stored) = INITIAL_SYNC_BLOCKS
       /\ IsSome(blocks[c][pass[c].head - INITIAL_SYNC_BLOCKS])

\* C4 (reorg repair): a pass that has found, below the block it just stored,
\* a stored block h with another hash than the parent_hash goes on to fetch
\* height h, and has stored h by the time it loads the next predecessor or
\* ends its walk; and every block a pass stores is the one the node returned
\* for that height.
C4_ReorgRepair ==
    /\ [](\A c \in Chains : \A h \in pass[c].reorged :
            /\ (Walking(c) /\ pc[ImportJob(c)] = "get_block") =>
                  (h \in Range(pass[c].stored) \/ h = imp[c].block_number)
            /\ (Walking(c) /\ pc[ImportJob(c)] # "get_block") =>
                  h \in Range(pass[c].stored))
    /\ [][\A c \in Chains :
            pass'[c].stored # pass[c].stored /\ pass'[c].stored # <<>> =>
               LET h == pass'[c].stored[Len(pass'[c].stored)]
               IN blocks'[c][h] = Some(RemoteBlock(c, h))
         ]_vars

\* C4 witness: a completed pass that found such a block and overwrote it.
C4_Witness ==
    \E c \in Chains :
       /\ PassCompleted(c)
       /\ pass[c].reorged # {}
       /\ pass[c].reorged \subseteq Range(pass[c].stored)

\* C10 (no-op pass): an Import pass that found the head height equal to the
\* high-water mark has called get_block never, stored no block, not written
\* the mark, and ends with Ok(vec![Import(chain)]), which do_job hands on.
NoOpPass(c) == IsSome(pass[c].hwm) /\ pass[c].head = Unwrap(pass[c].hwm)

C10_NoOpPass ==
    \A c \in Chains :
       LET j == ImportJob(c)
       IN (NoOpPass(c) /\ (PassCompleted(c) \/ Succeeded(j))) =>
             /\ ~pass[c].fetched
             /\ pass[c].stored = <<>>
             /\ ~pass[c].wrote_highest
             /\ highest[c] = pass[c].hwm
             /\ pc[j] = "match" => r[j] = Ok(<<j>>)
             /\ pc[j] = "ready" => out[j] = <<j>>

\* C10 witness: a no-op pass whose follow-up job is ready for the run loop,
\* with blocks in the store.
C10_Witness ==
    \E c \in Chains :
       /\ NoOpPass(c)
       /\ Succeeded(ImportJob(c))
       /\ pc[ImportJob(c)] = "ready"
       /\ \E h \in Heights : IsSome(blocks[c][h])

\* C5 (unconditional retry): whenever the pass of a job has failed, do_job
\* yields exactly the one-element vector of that job, and when the run loop
\* takes it the job is counted in the job collection as often as before and
\* starts again from its beginning.
C5_UnconditionalRetry ==
    /\ [](\A j \in Jobs : (Failed(j) /\ pc[j] = "ready") => out[j] = <<j>>)
    /\ [][\A j \in Jobs :
            (Failed(j) /\ pc[j] = "ready" /\ pc'[j] # "ready") =>
               /\ jobs'[j] = jobs[j]
               /\ jobs[j] = 1
               /\ pc'[j] = StartPc(j)
         ]_vars

\* C5 witness: a failed Calculate job and a failed Import job both wait for
\* the run loop with themselves as their follow-up.
C5_Witness ==
    /\ Failed(CalculateJob) /\ pc[CalculateJob] = "ready"
    /\ out[CalculateJob] = <<CalculateJob>>
    /\ \E c \in Chains :
          /\ Failed(ImportJob(c)) /\ pc[ImportJob(c)] = "ready"
          /\ out[ImportJob(c)] = <<ImportJob(c)>>

\* The job collection as `run` seeds it.
SeedJobs == PushAll([j \in Jobs |-> 0], init_jobs(cmd, all_chains))

\* C6 (perpetual self-rescheduling): a successful pass of a job returns the
\* one-element vector of that job, do_job hands it on unchanged, the job
\* collection always holds exactly the jobs `run` seeded, each once, so it is
\* never empty, and the loop never takes its "no more jobs" exit.
C6_SelfRescheduling ==
    /\ ~stopped
    /\ \E j \in Jobs : jobs[j] > 0
    /\ jobs = SeedJobs
    /\ \A j \in Jobs :
          Succeeded(j) =>
             /\ r[j].new_jobs = <<j>>
             /\ pc[j] = "ready" => out[j] = <<j>>

\* C6 witness: under the run command a successful Calculate pass that stored
\* a TPS record and a successful Import pass both wait for the run loop.
C6_Witness ==
    /\ cmd = "Run"
    /\ Succeeded(CalculateJob) /\ pc[CalculateJob] = "ready"
    /\ \E c \in Chains : IsSome(tps[c])
    /\ \E c \in Chains : Succeeded(ImportJob(c)) /\ pc[ImportJob(c)] = "ready"

\* The Calculate pass has ended without a failed store_tps call.
CalcEnded ==
    /\ jobs[CalculateJob] > 0
    /\ pc[CalculateJob] = "match"
    /\ ~calc.store_failed

\* C7 (per-chain failure isolation): when a Calculate pass has ended, no
\* store_tps call of it having failed, it has stored the TPS of every chain
\* whose calculation ended with Ok, and it returns a new Calculate job,
\* whatever the calculations of the other chains ended with.
C7_FailureIsolation ==
    CalcEnded =>
       /\ r[CalculateJob] = CalculateOk
       /\ \A c \in Range(all_chains) :
             (task[c].pc = "done" /\ task[c].res.kind = "Ok") =>
                c \in calc.stored

\* The TPS window of chain c as the stored blocks define it.
StoredBlock(c, h) == Unwrap(blocks[c][h])

\* Predecessor k ends the walk down from S: it is a week or more older than
\* the block at S, or it is the genesis block.
WindowStop(c, S, k) ==
    /\ IsSome(blocks[c][k])
    /\ \/ StoredBlock(c, k).timestamp
            <= StoredBlock(c, S).timestamp - seconds_per_week
       \/ k = 0

\* The walk down from S gets as far as loading predecessor k.
WalkReaches(c, S, k) ==
    \A m \in (k + 1)..(S - 1) : IsSome(blocks[c][m]) /\ ~WindowStop(c, S, m)

\* The boundary block: the first predecessor that ends the walk, or the
\* lowest block reached when the predecessor below it is not stored.
Boundary(c, S) ==
    LET k == CHOOSE k \in 0..(S - 1) :
                /\ WalkReaches(c, S, k)
                /\ blocks[c][k] = None \/ WindowStop(c, S, k)
    IN IF IsSome(blocks[c][k]) THEN k ELSE k + 1

RECURSIVE SumTxs(_, _, _)
SumTxs(c, lo, hi) ==
    IF lo > hi THEN 0 ELSE StoredBlock(c, hi).num_txs + SumTxs(c, lo, hi - 1)

WindowTxs(c) ==
    LET S == Unwrap(highest[c]) IN SumTxs(c, Boundary(c, S) + 1, S)

WindowSeconds(c) ==
    LET S == Unwrap(highest[c])
    IN StoredBlock(c, S).timestamp
         - StoredBlock(c, Boundary(c, S)).timestamp

\* C8 (TPS window): a calculation that ends with Ok yields the quotient of
\* the sum of num_txs over the stored blocks at heights b+1..S and of
\* timestamp[S] - timestamp[b], b the boundary block of the walk down from
\* the high-water mark S, and that is the TPS the pass stores.
C8_TpsWindow ==
    \A c \in Chains :
       /\ (task[c].pc = "done" /\ task[c].res.kind = "Ok") =>
             task[c].res.tps =
                Some([num |-> WindowTxs(c), den |-> WindowSeconds(c)])
       /\ c \in calc.stored =>
             tps[c] = Some([num |-> WindowTxs(c), den |-> WindowSeconds(c)])

\* C8 witness: a stored TPS whose window holds two blocks or more above a
\* boundary block that is not the genesis block.
C8_Witness ==
    \E c \in Chains :
       /\ c \in calc.stored
       /\ LET S == Unwrap(highest[c])
              b == Boundary(c, S)
          IN /\ b >= 1
             /\ S - b >= 2
             /\ tps[c] = Some([num |-> WindowTxs(c), den |-> WindowSeconds(c)])

\* The window of chain c exists: the task read the high-water mark, found the
\* block there, no older than a week after the epoch, and above height 0.
HasWindow(c) ==
    /\ IsSome(highest[c])
    /\ Unwrap(highest[c]) # 0
    /\ IsSome(blocks[c][Unwrap(highest[c])])
    /\ StoredBlock(c, Unwrap(highest[c])).timestamp >= seconds_per_week

WindowOverflows(c) ==
    \/ WindowTxs(c) > U32_MAX
    \/ WindowSeconds(c) > U32_MAX

\* C9 (overflow rejection): a calculation whose window holds more than
\* u32::MAX transactions or spans more than u32::MAX seconds ends with Err,
\* and the pass stores no TPS for that chain.
C9_OverflowRejection ==
    \A c \in Chains :
       (task[c].pc = "done" /\ HasWindow(c) /\ WindowOverflows(c)) =>
          /\ task[c].res = CalcErr
          /\ c \notin calc.stored

\* C11 (walk order): the heights an Import pass has stored are H, H - 1, ...
\* in this order, H the head it read, without a gap; the pass fetches only
\* the height just below the last one it stored, and it loads the stored
\* block at k - 1 only when k is the height it stored last.
C11_WalkOrder ==
    \A c \in Chains :
       LET j == ImportJob(c)
           stored == pass[c].stored
       IN /\ stored = DownFrom(pass[c].head, Len(stored))
          /\ (Walking(c) /\ pc[j] = "get_block") =>
                imp[c].block_number = pass[c].head - Len(stored)
          /\ (Walking(c) /\ pc[j] = "load_block") =>
                /\ stored # <<>>
                /\ imp[c].block_number = stored[Len(stored)]

\* C11 witness: a completed pass that stored three heights or more.
C11_Witness ==
    \E c \in Chains :
       /\ PassCompleted(c)
       /\ Len(pass[c].stored) >= 3
       /\ pass[c].stored = DownFrom(pass[c].head, Len(pass[c].stored))

\* C12 (missing-block retry): after the node has answered None for a height
\* the pass is still fetching that height, has not failed and has stored
\* nothing at it in this pass; the step of the None answer changes neither
\* the locals of the pass nor the store; the fetch can be repeated without
\* limit, and once the node has the block the pass can store it; the first
\* store after a None answer is of that height and of the node's block.
C12_MissingBlockRetry ==
    /\ [](\A c \in Chains :
            pass[c].absent =>
               /\ Walking(c)
               /\ pc[ImportJob(c)] = "get_block"
               /\ imp[c].block_number = pass[c].head - Len(pass[c].stored)
               /\ imp[c].block_number \notin Range(pass[c].stored)
               /\ ENABLED ImportGetBlockNone(c)
               /\ imp[c].block_number <= RemoteHead(c) =>
                     ENABLED ImportStoreBlock(c))
    /\ [][\A c \in Chains :
            /\ (~pass[c].absent /\ pass'[c].absent) =>
                  /\ pc' = pc /\ imp' = imp /\ r' = r
                  /\ blocks' = blocks /\ highest' = highest
                  /\ pass'[c].stored = pass[c].stored
            /\ (pass[c].absent /\ pass'[c].stored # pass[c].stored) =>
                  /\ pass'[c].stored =
                        Append(pass[c].stored, imp[c].block_number)
                  /\ blocks'[c][imp[c].block_number] =
                        Some(RemoteBlock(c, imp[c].block_number))
                  /\ pc'[ImportJob(c)] \in {"load_block", "store_highest"}
         ]_vars

\* C12 witness: in the middle of a walk the node has answered None for a
\* height above its head.
C12_Witness ==
    \E c \in Chains :
       /\ pass[c].absent
       /\ pass[c].stored # <<>>
       /\ imp[c].block_number > RemoteHead(c)

\* The walk of the pass of chain c has ended after a store.
WalkEnded(c) ==
    /\ jobs[ImportJob(c)] > 0
    /\ pc[ImportJob(c)] \in {"store_highest", "rescan"}
    /\ pass[c].stored # <<>>

\* The walk ended because the initial sync reached its cap.
EndedAtCap(c) ==
    pass[c].hwm = None /\ Len(pass[c].stored) = INITIAL_SYNC_BLOCKS

\* C13 (reconnect rule): a walk that has ended at a height k > 0 and not at
\* the initial-sync cap began with a high-water mark S, the stored block at
\* k - 1 has the hash that the block stored at k names as its parent, and
\* k - 1 <= S; and a walk that loads a predecessor k - 1 ends there exactly
\* when these hold, otherwise it goes on to fetch k - 1.
C13_ReconnectRule ==
    /\ [](\A c \in Chains :
            LET k == pass[c].stored[Len(pass[c].stored)]
            IN (WalkEnded(c) /\ k > 0 /\ ~EndedAtCap(c)) =>
                  /\ IsSome(pass[c].hwm)
                  /\ k - 1 <= Unwrap(pass[c].hwm)
                  /\ IsSome(blocks[c][k - 1])
                  /\ StoredBlock(c, k - 1).hash = StoredBlock(c, k).parent_hash)
    /\ [][\A c \in Chains :
            LET j == ImportJob(c)
                k == imp[c].block_number
                matches == /\ IsSome(blocks[c][k - 1])
                           /\ StoredBlock(c, k - 1).hash
                                 = StoredBlock(c, k).parent_hash
                below == /\ IsSome(pass[c].hwm)
                         /\ k - 1 <= Unwrap(pass[c].hwm)
            IN (pc[j] = "load_block" /\ pc'[j] \notin {"load_block", "match"})
                  => /\ (matches /\ below) => pc'[j] = "store_highest"
                     /\ ~(matches /\ below) =>
                           /\ pc'[j] = "get_block"
                           /\ imp'[c].block_number = k - 1
         ]_vars

\* C13 witness: a pass that began with a high-water mark stored two blocks
\* or more and ended its walk above the genesis block.
C13_Witness ==
    \E c \in Chains :
       /\ PassCompleted(c)
       /\ IsSome(pass[c].hwm)
       /\ Len(pass[c].stored) >= 2
       /\ pass[c].stored[Len(pass[c].stored)] > 0

\* Some stored block of chain c at or below the high-water mark is older
\* than the stored block below it.
NonMonotonic(c) ==
    \E h \in 1..Unwrap(highest[c]) :
       /\ IsSome(blocks[c][h])
       /\ IsSome(blocks[c][h - 1])
       /\ StoredBlock(c, h - 1).timestamp > StoredBlock(c, h).timestamp

\* C14 (non-monotonic timestamps): the calculation of a chain that has a
\* window, among whose stored blocks a predecessor has a greater timestamp
\* than its child, does not end in a panic.
C14_NonMonotonicNonFatal ==
    \A c \in Chains :
       (task[c].pc = "done" /\ HasWindow(c) /\ NonMonotonic(c)) =>
          task[c].res.kind # "Panic"

\* C15 (termination, genesis stop): with a node that keeps its blocks and
\* answers in the end, every Import pass that has begun ends; the height
\* the walk is at never leaves 0..H; a walk that has stored height 0 has
\* stored it last and fetches nothing more, and when the pass completes the
\* high-water mark is the head H it read.
C15_Termination ==
    /\ \A c \in Chains :
          (pc[ImportJob(c)] = "get_block_number")
             ~> (pc[ImportJob(c)] = "match")
    /\ [](\A c \in Chains :
            /\ Walking(c) =>
                  /\ imp[c].block_number >= 0
                  /\ imp[c].block_number <= pass[c].head
            /\ (Walking(c) /\ 0 \in Range(pass[c].stored)) =>
                  /\ pass[c].stored[Len(pass[c].stored)] = 0
                  /\ pc[ImportJob(c)] \in {"store_highest", "rescan"}
            /\ (PassCompleted(c) /\ 0 \in Range(pass[c].stored)) =>
                  /\ pass[c].wrote_highest
                  /\ highest[c] = Some(pass[c].head))

\* C15 witness: a completed pass that walked from a head above the genesis
\* block down to it.
C15_Witness ==
    \E c \in Chains :
       /\ PassCompleted(c)
       /\ 0 \in Range(pass[c].stored)
       /\ Len(pass[c].stored) >= 2
       /\ highest[c] = Some(pass[c].head)

\* C16 (single writer): the job collection never holds a job more than
\* once, and the blocks and the high-water mark of a chain change only in a
\* step of the one live Import pass of that chain.
C16_SingleWriter ==
    /\ [](\A j \in Jobs : jobs[j] <= 1)
    /\ [][\A c \in Chains :
            (blocks'[c] # blocks[c] \/ highest'[c] # highest[c]) =>
               /\ jobs[ImportJob(c)] = 1
               /\ Walking(c)
               /\ pass'[c] # pass[c]
         ]_vars

\* C16 witness: under the run command a chain that has a high-water mark
\* from a completed pass has a failed pass waiting to be retried, all three
\* jobs being live once.
C16_Witness ==
    /\ cmd = "Run"
    /\ \A j \in Jobs : jobs[j] = 1
    /\ \E c \in Chains :
          /\ IsSome(highest[c])
          /\ Failed(ImportJob(c))
          /\ pc[ImportJob(c)] = "ready"

\* C17 (block at the high-water mark): whenever a chain has a high-water
\* mark S, a block with block_number S is stored at height S; and a task of
\* Calculate that has read the mark finds the block there when it loads it.
C17_BlockAtHighest ==
    \A c \in Chains :
       /\ IsSome(highest[c]) =>
             /\ IsSome(blocks[c][Unwrap(highest[c])])
             /\ StoredBlock(c, Unwrap(highest[c])).block_number
                   = Unwrap(highest[c])
       /\ task[c].pc \in {"load_latest", "load_current"} =>
             IsSome(blocks[c][task[c].highest_block_number])

\* C17 witness: a task of Calculate is about to load the block at the mark
\* while an Import pass of the chain, begun with that mark, has stored a
\* block above it and not yet written the new mark.
C17_Witness ==
    \E c \in Chains :
       /\ task[c].pc = "load_latest"
       /\ IsSome(pass[c].hwm)
       /\ highest[c] = pass[c].hwm
       /\ pass[c].stored # <<>>
       /\ Walking(c)

\* C18 (monotone high-water mark): the high-water mark of a chain is never
\* below the mark its current or last Import pass began with.
C18_HighestMonotone ==
    \A c \in Chains :
       IsSome(pass[c].hwm) =>
          /\ IsSome(highest[c])
          /\ Unwrap(highest[c]) >= Unwrap(pass[c].hwm)

\* C19 (assertion validity): a task of Calculate never enters an iteration
\* of its walk with current_block_number = 0: not the first iteration, where
\* current_block_number is the high-water mark it read, nor a later one.
C19_AssertionValid ==
    \A c \in Chains :
       /\ task[c].pc = "load_current" => task[c].highest_block_number # 0
       /\ task[c].pc = "load_prev" => task[c].current_block_number # 0

\* C20 (non-zero window): every TPS record a Calculate pass stores was
\* computed with a divisor total_seconds > 0.
C20_NonZeroWindow ==
    \A c \in Chains :
       c \in calc.stored =>
          /\ IsSome(tps[c])
          /\ Unwrap(tps[c]).den > 0

====
